---- MODULE Spec2Model ----
(***************************************************************************)
(* The iterative analysis session of AnalysisRunner                        *)
(* (apps/mcp_server/src/agent/data_agent/analysis_runner.py):              *)
(* generate_analysis_iteratively, execute_code_iteration, and the search   *)
(* adapter ExaSearcher.search_health_insights it calls; around it the      *)
(* workflow that stages the datasets and reports                           *)
(* (apps/mcp_server/src/agent/end_of_day_workflow.py, data_discovery.py)   *)
(* and the server that runs it in background tasks (analysis_server.py).   *)
(*                                                                         *)
(* Python values.  A str is a sequence of string tokens (concatenation is  *)
(* \o, "" is <<>>); a dict is a function on its keys; a list is a          *)
(* sequence.  None in an object slot is the record None, None in a str     *)
(* slot is the token sequence NoneText, which no text equals.              *)
(***************************************************************************)
EXTENDS Integers, Sequences, FiniteSets, TLC

\* Bounds of the model: the longest batch of tool_use blocks in one
\* completion, the longest result list of one sandbox execution, and the
\* iteration in which the completion and the adapters are unconstrained
\* (in the others the model repeats its steady request, stops or finalizes).
MaxBatch == 2
MaxResults == 2
RichIteration == 19

\* Bounds of the server: the requests to /analyze that arrive, the ticks of
\* the clock that are followed, and the ticks in one second.
MaxRequests == 2
MaxTicks == 3
TicksPerSecond == 2

\* analysis_runner.py:143
max_iterations == 20

VARIABLES
    pc,                 \* position in generate_analysis_iteratively
    iteration_count,    \* line 142
    all_charts,         \* line 144, the accumulator
    final_analysis,     \* line 145
    messages,           \* line 86, the transcript
    assistant_message,  \* line 158
    tool_calls,         \* line 162
    i,                  \* line 188, index of the tool call being processed
    tool_used,          \* line 183
    tool_results,       \* line 184
    outcome,            \* the value returned (lines 312, 348, 356)
    raised,             \* the exception that left the function, if any
    steady,             \* what the model asks for in an ordinary iteration
    completions,        \* history: completion requests issued (line 155)
    sandbox_calls,      \* history: calls of sandbox.run_code (line 369)
    search_calls,       \* history: calls of the search adapter (line 269)
    produced,           \* history: images of the executions that succeeded
    requested,          \* history: the tool names of each completion
    terminal,           \* how the session ended
    returns,            \* history: return statements executed
    adapter,            \* history: what the last adapter call did
    sent,               \* history: the transcript of the last completion request (line 155)
    now,                \* the clock of the server, in ticks
    analysis_status,    \* analysis_server.py:38
    background_tasks,   \* the tasks added at analysis_server.py:95
    task,               \* the background task that runs, 0 if none
    wpc,                \* position of that task
    disk,               \* the files of data/export
    uploaded_files,     \* end_of_day_workflow.py:62
    sandbox_files,      \* the files written to the sandbox of the task
    result,             \* what run_end_of_day_analysis returned or raised
    arrivals            \* the requests to /analyze still to arrive

vars == <<pc, iteration_count, all_charts, final_analysis, messages,
          assistant_message, tool_calls, i, tool_used, tool_results, outcome,
          raised, steady, completions, sandbox_calls, search_calls, produced,
          requested, terminal, returns, adapter, sent,
          now, analysis_status, background_tasks, task, wpc, disk,
          uploaded_files, sandbox_files, result, arrivals>>

\* the variables of the workflow and of the server
server == <<now, analysis_status, background_tasks, task, wpc, disk,
            uploaded_files, sandbox_files, result, arrivals>>

----------------------------------------------------------------------------
\* Python values

None == [type |-> "NoneType"]
NoneText == <<"<None>">>
NotReturned == [type |-> "unset"]
EmptyDict == [k \in {} |-> <<>>]

\* dict.get(key, default)
Get(d, key, default) == IF key \in DOMAIN d THEN d[key] ELSE default

\* a truth value that only None fails
TruthyNotNone(text) == text # NoneText

\* truth value of a str | None
Truthy(text) == text # NoneText /\ text # <<>>

Whitespace == {"\n", " ", "\n\n"}

RECURSIVE LStrip(_)
LStrip(text) ==
    IF text # <<>> /\ Head(text) \in Whitespace THEN LStrip(Tail(text)) ELSE text

RECURSIVE RStrip(_)
RStrip(text) ==
    IF text # <<>> /\ text[Len(text)] \in Whitespace
    THEN RStrip(SubSeq(text, 1, Len(text) - 1))
    ELSE text

\* str.strip()
Strip(text) == RStrip(LStrip(text))

\* sep.join(parts)
RECURSIVE Join(_, _)
Join(parts, sep) ==
    IF parts = <<>> THEN <<>>
    ELSE IF Len(parts) = 1 THEN parts[1]
    ELSE parts[1] \o sep \o Join(Tail(parts), sep)

----------------------------------------------------------------------------
\* execute_code_iteration (analysis_runner.py:358-420)

\* An execution is what sandbox.run_code does with the code: it raises, or
\* returns an object with error, results and logs.stdout.

\* lines 379-388: one chart per result that has a png, titled by its
\* position among the charts of this execution
CollectCharts(results) ==
    LET charts[n \in 0..Len(results)] ==
            IF n = 0 THEN <<>>
            ELSE IF Truthy(results[n].png)
                 THEN Append(charts[n - 1],
                        [title |-> <<"Chart ", ToString(Len(charts[n - 1]) + 1)>>,
                         base64 |-> results[n].png,
                         alt |-> <<"Analysis chart ",
                                   ToString(Len(charts[n - 1]) + 1)>>])
                 ELSE charts[n - 1]
    IN charts[Len(results)]

\* lines 391-402: logs.stdout joined by newlines, then the text of every
\* result that has one
OutputText(execution) ==
    LET logs == IF execution.stdout # <<>>
                THEN Join(execution.stdout, <<"\n">>) ELSE <<>>
        texts[n \in 0..Len(execution.results)] ==
            IF n = 0 THEN logs
            ELSE IF Truthy(execution.results[n].text)
                 THEN texts[n - 1] \o <<"\n">> \o execution.results[n].text
                 ELSE texts[n - 1]
    IN texts[Len(execution.results)]

\* lines 404-406
SuccessMsg(charts) ==
    <<"Code executed successfully">>
    \o (IF charts # <<>>
        THEN <<" - Generated ", ToString(Len(charts)), " chart(s)">>
        ELSE <<>>)

\* execute_code_iteration that reports the output and the charts of an
\* execution also when the sandbox reports an error
execute_code_iteration_partial(execution) ==
    IF execution.raises
    THEN [success |-> FALSE,
          message |-> <<"Execution error: ">> \o execution.exception,
          charts |-> <<>>]
    ELSE LET charts == CollectCharts(execution.results)
             output_text == OutputText(execution)
         IN [success |-> execution.error = None,
             message |-> IF execution.error # None
                         THEN <<"Error: ">> \o execution.error.name
                              \o <<" - ">> \o execution.error.value
                         ELSE SuccessMsg(charts),
             charts |-> charts,
             stdout |-> IF Strip(output_text) # <<>>
                        THEN Strip(output_text) ELSE NoneText]

execute_code_iteration(execution) ==
    IF execution.raises
    THEN [success |-> FALSE,
          message |-> <<"Execution error: ">> \o execution.exception,
          charts |-> <<>>]
    ELSE IF execution.error # None
    THEN [success |-> FALSE,
          message |-> <<"Error: ">> \o execution.error.name
                      \o <<" - ">> \o execution.error.value,
          charts |-> <<>>]
    ELSE LET charts == CollectCharts(execution.results)
             output_text == OutputText(execution)
         IN [success |-> TRUE,
             message |-> SuccessMsg(charts),
             charts |-> charts,
             stdout |-> IF Strip(output_text) # <<>>
                        THEN Strip(output_text) ELSE NoneText]

\* ExtendCharts with the charts assigned instead of appended
ExtendChartsAssigned(charts, execution_result) ==
    IF execution_result.success /\ Get(execution_result, "charts", <<>>) # <<>>
    THEN execution_result.charts
    ELSE charts

\* the accumulator emptied by an execution that failed
ExtendChartsOrReset(charts, execution_result) ==
    IF execution_result.success /\ Get(execution_result, "charts", <<>>) # <<>>
    THEN charts \o execution_result.charts
    ELSE IF execution_result.success THEN charts ELSE <<>>

\* the new charts put in front of the accumulator
ExtendChartsPrepended(charts, execution_result) ==
    IF execution_result.success /\ Get(execution_result, "charts", <<>>) # <<>>
    THEN execution_result.charts \o charts
    ELSE charts

\* lines 226-231: the accumulator after an execution
ExtendCharts(charts, execution_result) ==
    IF execution_result.success /\ Get(execution_result, "charts", <<>>) # <<>>
    THEN charts \o execution_result.charts
    ELSE charts

\* lines 247-249: the text of the tool result of an execution
ResultContent(execution_result) ==
    execution_result.message
    \o (IF Truthy(Get(execution_result, "stdout", NoneText))
        THEN <<"\n\nCode Output:\n">> \o execution_result.stdout
        ELSE <<>>)

----------------------------------------------------------------------------
\* ExaSearcher.search_health_insights (exa_search.py:24-62)

\* lines 36-38 build the enhanced query from query and context; it decides
\* only what is sent to the service.

\* lines 40-62; reply is what client.chat.completions.create does with the
\* enhanced query: it raises, or returns a completion with choices
search_health_insights(query, context, reply) ==
    IF reply.raises
    THEN <<"Search error: ">> \o reply.exception
    ELSE IF reply.choices # <<>> /\ reply.choices[1].message # None
    THEN reply.choices[1].message.content
    ELSE <<"No search results found for: ">> \o query

----------------------------------------------------------------------------
\* The outcomes of generate_analysis_iteratively

\* FinalAnalysis with the default of the summary used for the focus findings
FinalAnalysisOneDefault(tool_input) ==
    [executive_summary |->
        Get(tool_input, "executive_summary", <<"Analysis completed">>),
     focus_analysis_findings |->
        Get(tool_input, "focus_analysis_findings", <<"Analysis completed">>)]

\* lines 296-315
FinalAnalysis(tool_input) ==
    [executive_summary |->
        Get(tool_input, "executive_summary", <<"Analysis completed">>),
     focus_analysis_findings |->
        Get(tool_input, "focus_analysis_findings", <<>>)]

\* FinalizeOutcome with "charts if charts else None" for the whole result,
\* as run_analysis_code returns
FinalizeOutcomeOrNone(charts, tool_input) ==
    IF charts # <<>>
    THEN [type |-> "dict", charts |-> charts,
          analysis |-> FinalAnalysis(tool_input)]
    ELSE None

FinalizeOutcome(charts, tool_input) ==
    [type |-> "dict",
     charts |-> IF charts # <<>> THEN charts ELSE <<>>,
     analysis |-> FinalAnalysis(tool_input)]

\* line 351
FallbackSummary ==
    <<"Analysis completed but reached maximum iterations without finalization. ",
      "Charts were generated successfully.">>

\* FallbackOutcome that gives up whatever was accumulated
FallbackOutcomeNone(charts) == None

\* lines 346-356
FallbackOutcome(charts) ==
    IF charts # <<>>
    THEN [type |-> "dict",
          charts |-> charts,
          analysis |-> [executive_summary |-> FallbackSummary,
                        focus_analysis_findings |-> <<>>]]
    ELSE None

\* LoopTest with <= for <
LoopTestInclusive(count) == count <= max_iterations

\* LoopTest of a loop without a cap
LoopTestAlways(count) == TRUE

\* line 147
LoopTest(count) == count < max_iterations

\* line 148
NextIteration(count) == count + 1

\* BreakTest of a loop that does not stop on a completion without tool calls
BreakTestNever(used) == FALSE

\* lines 339-341
BreakTest(used) == ~used

\* AfterToolCall when finalize_analysis stores its result and does not return
AfterToolCallNoReturn(tool_name) == "dispatch"

\* AfterToolCall when finalize_analysis ends the pass and not the session
AfterToolCallNextPass(tool_name) ==
    IF tool_name = "finalize_analysis" THEN "loop" ELSE "dispatch"

\* lines 295, 312: finalize_analysis returns from the function, every other
\* tool call falls through to the next one of the batch
AfterToolCall(tool_name) ==
    IF tool_name = "finalize_analysis" THEN "done" ELSE "dispatch"

\* lines 161-168
TextContent(content) ==
    LET blocks == SelectSeq(content, LAMBDA b : b.type = "text")
    IN [n \in 1..Len(blocks) |-> blocks[n].text]

ToolCalls(content) == SelectSeq(content, LAMBDA b : b.type = "tool_use")

\* lines 158, 171-180
AssistantMessage(text_content) ==
    [role |-> "assistant",
     content |-> IF text_content # <<>>
                 THEN <<[type |-> "text", text |-> Join(text_content, <<"\n">>)]>>
                 ELSE <<>>]

\* lines 198-205
WithToolUse(message, tool_call) ==
    [message EXCEPT !.content =
        Append(@, [type |-> "tool_use", id |-> tool_call.id,
                   name |-> tool_call.name, input |-> tool_call.input])]

\* lines 251-257, 279-293
ToolResult(tool_id, content) ==
    [tool_call_id |-> tool_id, type |-> "tool_result", content |-> content]

\* lines 322-330
UserMessage(results) ==
    [role |-> "user",
     content |-> [n \in 1..Len(results) |->
                    [type |-> "tool_result",
                     tool_use_id |-> results[n].tool_call_id,
                     content |-> results[n].content]]]

\* a transcript that keeps the instruction and the last loop pass only
AppendedLatest(transcript, message, results) ==
    <<transcript[1]>>
    \o (IF message.content # <<>> THEN <<message>> ELSE <<>>)
    \o (IF results # <<>> THEN <<UserMessage(results)>> ELSE <<>>)

\* lines 317-330: the transcript after one loop pass
Appended(transcript, message, results) ==
    transcript
    \o (IF message.content # <<>> THEN <<message>> ELSE <<>>)
    \o (IF results # <<>> THEN <<UserMessage(results)>> ELSE <<>>)

----------------------------------------------------------------------------
\* What the session receives from outside: the completions of the model, the
\* executions of the sandbox and the replies of the search service.
\*
\* A session is steady except in iteration RichIteration.  In a steady
\* iteration the model sends its steady request (a plotting run_python_code
\* or a search, fixed per session; the sandbox then renders one image, the
\* search answers), or it sends no request, or it finalizes; the completion
\* request may fail in any iteration.  In iteration RichIteration the
\* completion is any batch of at most MaxBatch requests and the adapters
\* answer in every way they can.  The tool_use ids are those of the service,
\* which are always present (the default of line 192 is never taken).

analysis_prompt == <<"prompt">>

ToolNames == {"run_python_code", "search_health_insights", "finalize_analysis"}

RunInputs == {[code |-> <<"df.plot()">>], [code |-> <<>>], EmptyDict}

SearchInputs ==
    {[query |-> <<"sleep">>, context |-> <<"ctx">>], [query |-> <<>>], EmptyDict}

\* the summary is the text of the model: any text, also that of line 351
FinalizeInputs ==
    {[executive_summary |-> <<"X">>],
     [executive_summary |-> <<"X">>, focus_analysis_findings |-> <<"F">>],
     [focus_analysis_findings |-> <<"F">>],
     [executive_summary |-> FallbackSummary],
     EmptyDict}

\* name and input of a tool_use block
Requests ==
    ([name : {"run_python_code"}, input : RunInputs])
    \cup ([name : {"search_health_insights"}, input : SearchInputs])
    \cup ([name : {"finalize_analysis"}, input : FinalizeInputs])
    \cup ([name : {"make_report"}, input : {EmptyDict}])

Batches == UNION {[1..n -> Requests] : n \in 0..MaxBatch}

\* the tool_use blocks of the completion of iteration count; the service
\* gives every block an id of its own
ToolUseBlocks(batch, count) ==
    [n \in 1..Len(batch) |->
        [type |-> "tool_use",
         id |-> <<"toolu_", ToString(count), "_", ToString(n)>>,
         name |-> batch[n].name,
         input |-> batch[n].input]]

TextBlock == [type |-> "text", text |-> <<"reasoning">>]

SteadyRequest(kind) ==
    IF kind = "run_python_code"
    THEN [name |-> "run_python_code", input |-> [code |-> <<"df.plot()">>]]
    ELSE [name |-> "search_health_insights", input |-> [query |-> <<"sleep">>]]

\* response.content of the completion of iteration count; in the rich
\* iteration any batch, a batch of at most one request also with reasoning
\* text before it
Completions(count, kind) ==
    IF count = RichIteration
    THEN {text \o ToolUseBlocks(batch, count) :
            text \in {<<>>, <<TextBlock>>},
            batch \in {b \in Batches : Len(b) <= 1}}
         \cup {ToolUseBlocks(batch, count) : batch \in Batches}
    ELSE {<<TextBlock>> \o ToolUseBlocks(<<SteadyRequest(kind)>>, count)}
         \cup {<<>>, <<TextBlock>>}
         \cup {<<TextBlock>> \o ToolUseBlocks(
                    <<[name |-> "finalize_analysis", input |-> input]>>, count) :
                 input \in FinalizeInputs}

\* a result of an execution: an image or a text; the sandbox renders a new
\* image each time
Png(call, n) == <<"png_", ToString(call), "_", ToString(n)>>

ResultKinds == UNION {[1..n -> {"png", "text"}] : n \in 0..MaxResults}

Results(kinds, call) ==
    [n \in 1..Len(kinds) |->
        IF kinds[n] = "png"
        THEN [png |-> Png(call, n), text |-> NoneText]
        ELSE [png |-> NoneText, text |-> <<"<Figure>">>]]

ExecutionError == [name |-> <<"NameError">>, value |-> <<"name 'df' is not defined">>]

SteadyExecution(call) ==
    [raises |-> FALSE, error |-> None, results |-> Results(<<"png">>, call),
     stdout |-> <<<<"rows: 3">>>>]

\* what sandbox.run_code does in iteration count, as its call-th call: it
\* raises, it reports an error (with an image and output already there), or
\* it succeeds with some results and with or without output on stdout
Executions(count, call) ==
    IF count = RichIteration
    THEN {[raises |-> TRUE, exception |-> <<"sandbox timeout">>],
          [raises |-> FALSE, error |-> ExecutionError,
           results |-> Results(<<"png">>, call), stdout |-> <<<<"rows: 3">>>>],
          [raises |-> FALSE, error |-> None,
           results |-> <<>>, stdout |-> <<<<"rows: 3">>>>]}
         \cup [raises : {FALSE},
               error : {None},
               results : {Results(kinds, call) : kinds \in ResultKinds},
               stdout : {<<>>}]
    ELSE {SteadyExecution(call)}

SteadyReply ==
    [raises |-> FALSE, choices |-> <<[message |-> [content |-> <<"insights">>]]>>]

\* what the search service does in iteration count
Replies(count) ==
    IF count = RichIteration
    THEN {[raises |-> TRUE, exception |-> <<"connection error">>],
          [raises |-> FALSE, choices |-> <<>>],
          [raises |-> FALSE, choices |-> <<[message |-> None]>>],
          [raises |-> FALSE, choices |-> <<[message |-> [content |-> NoneText]]>>],
          SteadyReply}
    ELSE {SteadyReply}

\* the images of an execution that succeeded
Images(execution) ==
    IF execution.raises \/ execution.error # None THEN <<>>
    ELSE LET with_png == SelectSeq(execution.results, LAMBDA r : r.png # NoneText)
         IN [n \in 1..Len(with_png) |-> with_png[n].png]

----------------------------------------------------------------------------
\* generate_analysis_iteratively (analysis_runner.py:73-356)

\* the server before its first request, with the files of data/export
ServerStart(files, requests) ==
    /\ now = 0
    /\ analysis_status = EmptyDict
    /\ background_tasks = <<>>
    /\ task = 0
    /\ wpc = "idle"
    /\ disk = files
    /\ uploaded_files = <<>>
    /\ sandbox_files = <<>>
    /\ result = NotReturned
    /\ arrivals = requests

\* lines 86, 142-145: the locals of generate_analysis_iteratively at its
\* first loop test (position "loop"), or before the call (position "idle")
SessionStart(position) ==
    /\ pc = position
    /\ iteration_count = 0
    /\ all_charts = <<>>
    /\ final_analysis = None
    /\ messages = <<[role |-> "user",
                     content |-> <<[type |-> "text", text |-> analysis_prompt]>>]>>
    /\ assistant_message = [role |-> "assistant", content |-> <<>>]
    /\ tool_calls = <<>>
    /\ i = 1
    /\ tool_used = FALSE
    /\ tool_results = <<>>
    /\ outcome = NotReturned
    /\ raised = NoneText
    /\ steady \in {"run_python_code", "search_health_insights"}
    /\ completions = 0
    /\ sandbox_calls = 0
    /\ search_calls = 0
    /\ produced = <<>>
    /\ requested = <<>>
    /\ terminal = "running"
    /\ returns = 0
    /\ adapter = NotReturned
    /\ sent = <<>>

\* generate_analysis_iteratively called with analysis_prompt, no server
Init == SessionStart("loop") /\ ServerStart(<<>>, 0)

\* lines 147-186: the loop test, the increment, the completion request and
\* the partition of its content
Iterate ==
    /\ pc = "loop"
    /\ LoopTest(iteration_count)
    /\ iteration_count <= max_iterations  \* the counter is followed one pass beyond the cap at most
    /\ \E content \in Completions(NextIteration(iteration_count), steady) :
        /\ iteration_count' = NextIteration(iteration_count)
        /\ completions' = completions + 1
        /\ assistant_message' = AssistantMessage(TextContent(content))
        /\ tool_calls' = ToolCalls(content)
        /\ requested' = Append(requested,
                [n \in 1..Len(ToolCalls(content)) |-> ToolCalls(content)[n].name])
    /\ i' = 1
    /\ tool_used' = FALSE
    /\ tool_results' = <<>>
    /\ pc' = "dispatch"
    /\ UNCHANGED server
    /\ UNCHANGED <<all_charts, final_analysis, messages, outcome, raised, steady,
                   sandbox_calls, search_calls, produced, terminal, returns,
                   adapter>>
    /\ sent' = messages

\* lines 147-155: the completion request raises
CompletionFails ==
    /\ pc = "loop"
    /\ LoopTest(iteration_count)
    /\ iteration_count <= max_iterations  \* the counter is followed one pass beyond the cap at most
    /\ iteration_count' = NextIteration(iteration_count)
    /\ completions' = completions + 1
    /\ raised' = <<"APIError">>
    /\ terminal' = "exception"
    /\ pc' = "done"
    /\ UNCHANGED server
    /\ UNCHANGED <<all_charts, final_analysis, messages, assistant_message,
                   tool_calls, i, tool_used, tool_results, outcome, steady,
                   sandbox_calls, search_calls, produced, requested, returns,
                   adapter>>
    /\ sent' = messages

\* lines 188-205 open every branch below: tool_used is set and the tool_use
\* block joins the assistant message.

\* lines 207-257
RunPythonCode ==
    /\ pc = "dispatch"
    /\ i <= Len(tool_calls)
    /\ tool_calls[i].name = "run_python_code"
    /\ tool_used' = TRUE
    /\ assistant_message' = WithToolUse(assistant_message, tool_calls[i])
    /\ LET code == Get(tool_calls[i].input, "code", NoneText) IN
        IF Truthy(code)
        THEN \E execution \in Executions(iteration_count, sandbox_calls + 1) :
                LET execution_result == execute_code_iteration(execution) IN
                /\ sandbox_calls' = sandbox_calls + 1
                /\ all_charts' = ExtendCharts(all_charts, execution_result)
                /\ tool_results' = Append(tool_results,
                        ToolResult(tool_calls[i].id, ResultContent(execution_result)))
                /\ produced' = produced \o Images(execution)
                /\ adapter' = execution
        ELSE UNCHANGED <<sandbox_calls, all_charts, tool_results, produced,
                         adapter>>
    /\ i' = i + 1
    /\ pc' = AfterToolCall(tool_calls[i].name)
    /\ UNCHANGED server
    /\ UNCHANGED <<iteration_count, final_analysis, messages, tool_calls, outcome,
                   raised, steady, completions, search_calls, requested, terminal,
                   returns>>
    /\ UNCHANGED sent

\* lines 259-293
SearchHealthInsights ==
    /\ pc = "dispatch"
    /\ i <= Len(tool_calls)
    /\ tool_calls[i].name = "search_health_insights"
    /\ tool_used' = TRUE
    /\ assistant_message' = WithToolUse(assistant_message, tool_calls[i])
    /\ i' = i + 1
    /\ LET query == Get(tool_calls[i].input, "query", NoneText)
           context == Get(tool_calls[i].input, "context", <<>>)
       IN
        IF Truthy(query)
        THEN \E reply \in Replies(iteration_count) :
                LET search_result == search_health_insights(query, context, reply) IN
                /\ search_calls' = search_calls + 1
                /\ adapter' = reply
                /\ IF search_result = NoneText
                   THEN \* line 275: len(None) raises TypeError
                        /\ raised' = <<"TypeError">>
                        /\ terminal' = "exception"
                        /\ pc' = "done"
                        /\ UNCHANGED tool_results
                   ELSE /\ tool_results' = Append(tool_results,
                                ToolResult(tool_calls[i].id,
                                    <<"Health Insights Search Results:\n\n">>
                                    \o search_result))
                        /\ pc' = AfterToolCall(tool_calls[i].name)
                        /\ UNCHANGED <<raised, terminal>>
        ELSE /\ tool_results' = Append(tool_results,
                    ToolResult(tool_calls[i].id,
                        <<"Error: Query parameter is required for health insights search">>))
             /\ pc' = AfterToolCall(tool_calls[i].name)
             /\ UNCHANGED <<search_calls, raised, terminal, adapter>>
    /\ UNCHANGED server
    /\ UNCHANGED <<iteration_count, all_charts, final_analysis, messages, tool_calls,
                   outcome, steady, completions, sandbox_calls, produced, requested,
                   returns>>
    /\ UNCHANGED sent

\* finalize_analysis that closes the pass in the transcript before it returns
FinalizeAnalysisAppending ==
    /\ pc = "dispatch"
    /\ i <= Len(tool_calls)
    /\ tool_calls[i].name = "finalize_analysis"
    /\ tool_used' = TRUE
    /\ assistant_message' = WithToolUse(assistant_message, tool_calls[i])
    /\ i' = i + 1
    /\ final_analysis' = FinalAnalysis(tool_calls[i].input)
    /\ pc' = "done"
    /\ terminal' = "finalized"
    /\ outcome' = FinalizeOutcome(all_charts, tool_calls[i].input)
    /\ returns' = returns + 1
    /\ messages' = Appended(messages, assistant_message', tool_results)
    /\ UNCHANGED server
    /\ UNCHANGED <<iteration_count, all_charts, tool_calls, tool_results,
                   raised, steady, completions, sandbox_calls, search_calls,
                   produced, requested, adapter, sent>>

\* lines 295-315
FinalizeAnalysis ==
    /\ pc = "dispatch"
    /\ i <= Len(tool_calls)
    /\ tool_calls[i].name = "finalize_analysis"
    /\ tool_used' = TRUE
    /\ assistant_message' = WithToolUse(assistant_message, tool_calls[i])
    /\ i' = i + 1
    /\ final_analysis' = FinalAnalysis(tool_calls[i].input)
    /\ pc' = AfterToolCall(tool_calls[i].name)
    /\ terminal' = "finalized"
    /\ IF pc' = "done"
       THEN /\ outcome' = FinalizeOutcome(all_charts, tool_calls[i].input)
            /\ returns' = returns + 1
       ELSE UNCHANGED <<outcome, returns>>
    /\ UNCHANGED server
    /\ UNCHANGED <<iteration_count, all_charts, messages, tool_calls, tool_results,
                   raised, steady, completions, sandbox_calls, search_calls,
                   produced, requested, adapter>>
    /\ UNCHANGED sent

\* lines 207, 259, 295: a name that matches no branch
UnknownTool ==
    /\ pc = "dispatch"
    /\ i <= Len(tool_calls)
    /\ tool_calls[i].name \notin ToolNames
    /\ tool_used' = TRUE
    /\ assistant_message' = WithToolUse(assistant_message, tool_calls[i])
    /\ i' = i + 1
    /\ pc' = AfterToolCall(tool_calls[i].name)
    /\ UNCHANGED server
    /\ UNCHANGED <<iteration_count, all_charts, final_analysis, messages, tool_calls,
                   tool_results, outcome, raised, steady, completions,
                   sandbox_calls, search_calls, produced, requested, terminal,
                   returns, adapter>>
    /\ UNCHANGED sent

\* a loop pass that may end with tool calls of the batch not yet dispatched
EndPassEarly ==
    /\ pc = "dispatch"
    /\ messages' = Appended(messages, assistant_message, tool_results)
    /\ pc' = IF BreakTest(tool_used) THEN "break" ELSE "loop"
    /\ UNCHANGED server
    /\ UNCHANGED <<iteration_count, all_charts, final_analysis, assistant_message,
                   tool_calls, i, tool_used, tool_results, outcome, raised, steady,
                   completions, sandbox_calls, search_calls, produced, requested,
                   terminal, returns, adapter, sent>>

\* lines 317-341: the end of a loop pass
EndPass ==
    /\ pc = "dispatch"
    /\ i > Len(tool_calls)
    /\ messages' = Appended(messages, assistant_message, tool_results)
    /\ pc' = IF BreakTest(tool_used) THEN "break" ELSE "loop"
    /\ UNCHANGED server
    /\ UNCHANGED <<iteration_count, all_charts, final_analysis, assistant_message,
                   tool_calls, i, tool_used, tool_results, outcome, raised, steady,
                   completions, sandbox_calls, search_calls, produced, requested,
                   terminal, returns, adapter>>
    /\ UNCHANGED sent

\* lines 343-356: after the loop
Finish ==
    /\ \/ pc = "break"
       \/ pc = "loop" /\ ~LoopTest(iteration_count)
    /\ outcome' = FallbackOutcome(all_charts)
    /\ returns' = returns + 1
    /\ terminal' = IF pc = "break" THEN "idle-stop" ELSE "exhausted"
    /\ pc' = "done"
    /\ UNCHANGED server
    /\ UNCHANGED <<iteration_count, all_charts, final_analysis, messages,
                   assistant_message, tool_calls, i, tool_used, tool_results,
                   raised, steady, completions, sandbox_calls, search_calls,
                   produced, requested, adapter>>
    /\ UNCHANGED sent

Next ==
    \/ Iterate
    \/ CompletionFails
    \/ RunPythonCode
    \/ SearchHealthInsights
    \/ FinalizeAnalysis
    \/ UnknownTool
    \/ EndPass
    \/ Finish

Spec == Init /\ [][Next]_vars

\* Every call returns or raises, so a step that can be taken is taken.
FairSpec == Spec /\ WF_vars(Next)

----------------------------------------------------------------------------
\* The workflow around the session: data_discovery.py, upload_csv_files
\* (analysis_runner.py:39-60), generate_analysis_report and
\* run_end_of_day_analysis (end_of_day_workflow.py)
\*
\* A file name is the sequence of its parts, so that its first character and
\* its extension can be told; a file of data/export is its name, whether it
\* can be read, and its text.

Food ==
    [name |-> <<"food", ".csv">>, readable |-> TRUE,
     data |-> <<"date,kcal", "\n", "2024-05-01,2100", "\n">>]

Workouts ==
    [name |-> <<"workouts", ".csv">>, readable |-> TRUE,
     data |-> <<"date,exercise", "\n", "2024-05-01,squat", "\n">>]

Metadata ==
    [name |-> <<"_", "metadata", ".csv">>, readable |-> TRUE,
     data |-> <<"exported", "\n">>]

Readme == [name |-> <<"README", ".md">>, readable |-> TRUE, data |-> <<"notes">>]

Blank(file) == [file EXCEPT !.data = <<"\n", " ">>]

Unreadable(file) == [file EXCEPT !.readable = FALSE]

\* the states of data/export a server is started on
Disks ==
    {<<>>,
     <<Metadata, Readme>>,
     <<Blank(Food)>>,
     <<Food, Unreadable(Workouts)>>,
     <<Metadata, Food, Workouts>>}

\* the state of data/export of the one request whose session is followed
SessionDisk == <<Readme, Food, Blank(Workouts)>>

\* the states of data/export of the one request that is followed step by
\* step: nothing, no data file, only empty files, only unreadable files, and
\* one file that loads (whose upload succeeds or fails)
WorkflowDisks ==
    {<<>>,
     <<Metadata, Readme>>,
     <<Blank(Food), Blank(Workouts)>>,
     <<Unreadable(Food)>>,
     SessionDisk}

\* data_discovery.py:9-31: glob *.csv, then the names that do not start
\* with "_" and are not README.md
discover_csv_files(files) ==
    LET csv_file_paths == SelectSeq(files, LAMBDA f : f.name[Len(f.name)] = ".csv")
        kept == SelectSeq(csv_file_paths,
                    LAMBDA f : Head(f.name) # "_" /\ f.name # <<"README", ".md">>)
    IN [n \in 1..Len(kept) |-> kept[n].name]

\* data_discovery.py:34-61
RECURSIVE load_csv_files(_, _)
load_csv_files(files, csv_files) ==
    IF csv_files = <<>> THEN <<>>
    ELSE LET file == CHOOSE f \in {files[n] : n \in 1..Len(files)} :
                        f.name = Head(csv_files)
         IN (IF file.readable /\ Truthy(Strip(file.data))
             THEN << <<Head(csv_files), file.data>> >>
             ELSE <<>>)
            \o load_csv_files(files, Tail(csv_files))

\* analysis_runner.py:35-37: where sandbox.files.write puts a file
SandboxPath(filename) == <<"/home/user/">> \o filename

\* what sandbox.files.write does for each of the files, in turn: it writes
\* the file and returns its path, or it raises
Writes(loaded_files) ==
    {[n \in 1..Len(loaded_files) |->
        IF fails[n]
        THEN [raises |-> TRUE, exception |-> <<"sandbox write failed">>]
        ELSE [raises |-> FALSE, path |-> SandboxPath(loaded_files[n][1])]] :
     fails \in [1..Len(loaded_files) -> BOOLEAN]}

\* the files that are in the sandbox after these writes
Written(loaded_files, writes) ==
    LET written == SelectSeq([n \in 1..Len(loaded_files) |-> n],
                             LAMBDA n : ~writes[n].raises)
    IN [k \in 1..Len(written) |->
            [name |-> loaded_files[written[k]][1],
             path |-> writes[written[k]].path]]

\* upload_csv_files that gives up at the first upload that fails
RECURSIVE upload_csv_files_until_failure(_, _)
upload_csv_files_until_failure(loaded_files, writes) ==
    IF loaded_files = <<>> \/ Head(writes).raises THEN <<>>
    ELSE << <<Head(loaded_files)[1], Head(writes).path>> >>
         \o upload_csv_files_until_failure(Tail(loaded_files), Tail(writes))

\* analysis_runner.py:39-60
RECURSIVE upload_csv_files(_, _)
upload_csv_files(loaded_files, writes) ==
    IF loaded_files = <<>> THEN <<>>
    ELSE (IF Head(writes).raises
          THEN <<>>
          ELSE << <<Head(loaded_files)[1], Head(writes).path>> >>)
         \o upload_csv_files(Tail(loaded_files), Tail(writes))

\* html_generator.py:175-190: the prompt lists the uploaded files
generate_analysis_prompt(files) ==
    <<"I have uploaded the following quantified self CSV files to the sandbox:", "\n">>
    \o Join([n \in 1..Len(files) |->
                <<"- ">> \o files[n][1] \o <<" at ">> \o files[n][2]], <<"\n">>)
    \o <<"\n", "## Your Task">>

\* end_of_day_workflow.py:100-154
create_end_of_day_prompt(files, focus) ==
    generate_analysis_prompt(files)
    \o (IF Truthy(focus)
        THEN <<"DETAILED ANALYSIS FOCUS: ", "\"">> \o focus \o <<"\"">>
        ELSE <<>>)
    \o <<"SPECIAL FOCUS FOR END-OF-DAY ANALYSIS:">>

\* end_of_day_workflow.py:43-49, 53-59, 64-70, 78-85: a report of failure
FailureReport(error) == [success |-> FALSE, error |-> error, charts |-> <<>>]

\* end_of_day_workflow.py:78-98: the report made of what the session returned
AnalysisReport(analysis_result, files) ==
    IF analysis_result = None
    THEN FailureReport(<<"Analysis failed to generate insights">>)
    ELSE [success |-> TRUE,
          charts |-> analysis_result.charts,
          analysis |-> analysis_result.analysis,
          file_count |-> Len(files),
          chart_count |-> Len(analysis_result.charts),
          uploaded_files |-> files]

\* what send_to_n8n_workflow answers (end_of_day_workflow.py:156-254); the
\* webhook may not be configured (analysis_server.py:147)
Unconfigured == [type |-> "unconfigured"]

Emails ==
    {Unconfigured,
     [success |-> TRUE],
     [success |-> FALSE, error |-> <<"n8n webhook failed with status 500: ">>]}

\* end_of_day_workflow.py:277-305: the text returned, without the leading
\* symbol of each message
run_end_of_day_analysis(analysis_result, email_result) ==
    IF ~analysis_result.success
    THEN <<"Analysis failed: ">> \o analysis_result.error
    ELSE IF email_result = Unconfigured
    THEN <<"End-of-day analysis complete! Generated ",
           ToString(analysis_result.chart_count),
           " charts. Email delivery not configured.">>
    ELSE IF email_result.success
    THEN <<"End-of-day analysis complete! Generated ",
           ToString(analysis_result.chart_count),
           " charts and sent email summary via n8n workflow.">>
    ELSE <<"Analysis completed (", ToString(analysis_result.chart_count),
           " charts) but email delivery failed: ">> \o email_result.error

Returns(value) == [raises |-> FALSE, value |-> value]

\* an exception caught on the way and returned as a text
RaisesCaught(exception) == [raises |-> FALSE, value |-> exception]

\* an exception that leaves a call: nothing between the session and
\* run_analysis_background (analysis_server.py:157, 171) catches it
Raises(exception) == [raises |-> TRUE, exception |-> exception]

----------------------------------------------------------------------------
\* The server (analysis_server.py)

\* d[key] = value
Put(d, key, value) ==
    [k \in DOMAIN d \cup {key} |-> IF k = key THEN value ELSE d[k]]

\* line 64: strftime("%Y%m%d_%H%M%S") keeps the second of the clock
Timestamp(time) == <<ToString(time \div TicksPerSecond)>>

\* line 65
AnalysisId(timestamp) == <<"analysis_">> \o timestamp

\* line 66
LogFile(timestamp) == <<"/tmp/end_of_day_analysis_">> \o timestamp \o <<".log">>

\* AnalysisRequest.focus (line 42)
Focuses == {NoneText, <<"sleep quality">>}

\* the ids a client asks the status of
AskedIds == {AnalysisId(Timestamp(time)) : time \in 0..(MaxTicks + TicksPerSecond)}

\* a second of the clock goes by in TicksPerSecond ticks; the clock is
\* read by start_analysis only, so it is followed between the handlers
Tick ==
    /\ now < MaxTicks
    /\ wpc = "idle"
    /\ now' = now + 1
    /\ UNCHANGED <<pc, iteration_count, all_charts, final_analysis, messages,
                   assistant_message, tool_calls, i, tool_used, tool_results,
                   outcome, raised, steady, completions, sandbox_calls,
                   search_calls, produced, requested, terminal, returns, adapter,
                   analysis_status, background_tasks, task, wpc, disk,
                   uploaded_files, sandbox_files, result, arrivals>>
    /\ UNCHANGED sent

\* lines 58-105.  A handler runs when no background task holds the event
\* loop: run_analysis_background awaits nothing.  The entries are kept
\* without start_time and end_time, clock readings that no code reads.
start_analysis(focus) ==
    /\ wpc = "idle"
    /\ arrivals > 0
    /\ LET timestamp == Timestamp(now)
           analysis_id == AnalysisId(timestamp)
           log_file == LogFile(timestamp)
       IN /\ analysis_status' = Put(analysis_status, analysis_id,
                    [status |-> "started", log_file |-> log_file,
                     focus |-> focus])
          /\ background_tasks' = Append(background_tasks,
                    [analysis_id |-> analysis_id, focus |-> focus,
                     state |-> "pending"])
    /\ arrivals' = arrivals - 1
    /\ UNCHANGED <<pc, iteration_count, all_charts, final_analysis, messages,
                   assistant_message, tool_calls, i, tool_used, tool_results,
                   outcome, raised, steady, completions, sandbox_calls,
                   search_calls, produced, requested, terminal, returns, adapter,
                   now, task, wpc, disk, uploaded_files, sandbox_files, result>>
    /\ UNCHANGED sent

\* lines 111-114: what get_analysis_status answers
StatusResponse(analysis_id) ==
    IF analysis_id \notin DOMAIN analysis_status
    THEN [error |-> "Analysis not found"]
    ELSE analysis_status[analysis_id]

\* lines 108-114: the handler reads the map and writes nothing
get_analysis_status(analysis_id) ==
    /\ wpc = "idle"
    /\ \/ "status" \in DOMAIN StatusResponse(analysis_id)
       \/ "error" \in DOMAIN StatusResponse(analysis_id)
    /\ UNCHANGED <<pc, iteration_count, all_charts, final_analysis, messages,
                   assistant_message, tool_calls, i, tool_used, tool_results,
                   outcome, raised, steady, completions, sandbox_calls,
                   search_calls, produced, requested, terminal, returns, adapter,
                   now, analysis_status, background_tasks, task, wpc, disk,
                   uploaded_files, sandbox_files, result, arrivals>>
    /\ UNCHANGED sent

\* the entry of the task that runs
Entry == analysis_status[background_tasks[task].analysis_id]

\* analysis_status[analysis_id][key] = value for the task that runs
Updated(entry) ==
    [analysis_status EXCEPT ![background_tasks[task].analysis_id] = entry]

\* lines 138-153: a pending task starts; the constructor of the analyzer
\* opens the sandbox (analysis_runner.py:20), which may raise
run_analysis_background ==
    /\ wpc = "idle"
    /\ \E t \in 1..Len(background_tasks) :
        /\ background_tasks[t].state = "pending"
        /\ task' = t
        /\ background_tasks' = [background_tasks EXCEPT ![t].state = "running"]
        /\ analysis_status' =
                [analysis_status EXCEPT ![background_tasks[t].analysis_id] =
                    Put(Put(@, "status", "running"), "stage", "analyzing")]
    /\ \E opened \in BOOLEAN :
        IF opened
        THEN wpc' = "report" /\ result' = NotReturned
        ELSE wpc' = "end" /\ result' = Raises(<<"SandboxException">>)
    /\ uploaded_files' = <<>>
    /\ sandbox_files' = <<>>
    /\ UNCHANGED <<pc, iteration_count, all_charts, final_analysis, messages,
                   assistant_message, tool_calls, i, tool_used, tool_results,
                   outcome, raised, steady, completions, sandbox_calls,
                   search_calls, produced, requested, terminal, returns, adapter,
                   now, disk, arrivals>>
    /\ UNCHANGED sent

\* generate_analysis_report without the test of lines 64-70: the session is
\* called with whatever was uploaded, also with nothing
generate_analysis_report_unchecked ==
    /\ wpc = "report"
    /\ LET csv_files == discover_csv_files(disk)
           loaded_files == load_csv_files(disk, csv_files)
           focus == background_tasks[task].focus
       IN \E writes \in Writes(loaded_files) :
                /\ sandbox_files' = Written(loaded_files, writes)
                /\ uploaded_files' = upload_csv_files(loaded_files, writes)
                /\ wpc' = "session"
                /\ pc' = "loop"
                /\ messages' =
                    <<[role |-> "user",
                       content |-> <<[type |-> "text",
                                      text |-> create_end_of_day_prompt(
                                                uploaded_files', focus)]>>]>>
                /\ outcome' = NotReturned
                /\ raised' = NoneText
                /\ terminal' = "running"
                /\ returns' = 0
                /\ completions' = 0
                /\ UNCHANGED result
    /\ UNCHANGED <<iteration_count, all_charts, final_analysis,
                   assistant_message, tool_calls, i, tool_used, tool_results,
                   steady, sandbox_calls, search_calls, produced, requested,
                   adapter, sent,
                   now, analysis_status, background_tasks, task, disk,
                   arrivals>>

\* end_of_day_workflow.py:275-280 and 39-76: the datasets are discovered,
\* loaded and uploaded; without any the workflow returns its failure text,
\* with some it calls generate_analysis_iteratively
generate_analysis_report ==
    /\ wpc = "report"
    /\ LET csv_files == discover_csv_files(disk)
           loaded_files == load_csv_files(disk, csv_files)
           focus == background_tasks[task].focus
           Fails(error) ==
                /\ result' = Returns(run_end_of_day_analysis(FailureReport(error),
                                                             Unconfigured))
                /\ wpc' = "end"
                /\ UNCHANGED <<uploaded_files, sandbox_files, pc, messages,
                               outcome, raised, terminal, returns, completions>>
       IN IF csv_files = <<>>
          THEN Fails(<<"No CSV data files found for analysis">>)
          ELSE IF loaded_files = <<>>
          THEN Fails(<<"Failed to load CSV files">>)
          ELSE \E writes \in Writes(loaded_files) :
                /\ sandbox_files' = Written(loaded_files, writes)
                /\ uploaded_files' = upload_csv_files(loaded_files, writes)
                /\ IF uploaded_files' = <<>>
                   THEN /\ result' = Returns(run_end_of_day_analysis(
                                FailureReport(<<"Failed to upload files to analysis sandbox">>),
                                Unconfigured))
                        /\ wpc' = "end"
                        /\ UNCHANGED <<pc, messages, outcome, raised, terminal,
                                       returns, completions>>
                   ELSE /\ wpc' = "session"
                        /\ pc' = "loop"
                        /\ messages' =
                            <<[role |-> "user",
                               content |-> <<[type |-> "text",
                                              text |-> create_end_of_day_prompt(
                                                        uploaded_files', focus)]>>]>>
                        /\ outcome' = NotReturned
                        /\ raised' = NoneText
                        /\ terminal' = "running"
                        /\ returns' = 0
                        /\ completions' = 0
                        /\ UNCHANGED result
    /\ UNCHANGED <<iteration_count, all_charts, final_analysis,
                   assistant_message, tool_calls, i, tool_used, tool_results,
                   steady, sandbox_calls, search_calls, produced, requested,
                   adapter,
                   now, analysis_status, background_tasks, task, disk,
                   arrivals>>
    /\ UNCHANGED sent

\* what generate_analysis_iteratively ends with: None, an outcome with
\* charts, or an exception
SessionResults ==
    {[outcome |-> None, raised |-> NoneText, terminal |-> "idle-stop"],
     [outcome |-> FallbackOutcome(CollectCharts(Results(<<"png">>, 1))),
      raised |-> NoneText, terminal |-> "exhausted"],
     [outcome |-> NotReturned, raised |-> <<"APIError">>,
      terminal |-> "exception"]}

\* the session taken as a whole: the call of end_of_day_workflow.py:76 ends
\* in one of the ways the session ends
generate_analysis ==
    /\ wpc = "session"
    /\ pc = "loop"
    /\ \E session \in SessionResults :
        /\ outcome' = session.outcome
        /\ raised' = session.raised
        /\ terminal' = session.terminal
        /\ returns' = IF session.raised = NoneText THEN 1 ELSE 0
    /\ pc' = "done"
    /\ UNCHANGED <<iteration_count, all_charts, final_analysis, messages,
                   assistant_message, tool_calls, i, tool_used, tool_results,
                   steady, completions, sandbox_calls, search_calls, produced,
                   requested, adapter>>
    /\ UNCHANGED server
    /\ UNCHANGED sent

\* When generate_analysis_iteratively has returned or raised, its frame is
\* gone: what it returned or raised remains (with the histories of how it
\* ended), its locals are as before the call.
SessionFrameDropped ==
    /\ iteration_count' = 0
    /\ all_charts' = <<>>
    /\ final_analysis' = None
    /\ messages' = <<[role |-> "user",
                      content |-> <<[type |-> "text", text |-> analysis_prompt]>>]>>
    /\ assistant_message' = [role |-> "assistant", content |-> <<>>]
    /\ tool_calls' = <<>>
    /\ i' = 1
    /\ tool_used' = FALSE
    /\ tool_results' = <<>>
    /\ sandbox_calls' = 0
    /\ search_calls' = 0
    /\ produced' = <<>>
    /\ requested' = <<>>
    /\ adapter' = NotReturned
    /\ sent' = <<>>
    /\ UNCHANGED <<pc, outcome, raised, steady, completions, terminal, returns>>

\* When run_analysis_background ends, the analyzer and the locals of the
\* workflow are gone.
WorkflowFrameDropped ==
    /\ result' = NotReturned
    /\ uploaded_files' = <<>>
    /\ sandbox_files' = <<>>
    /\ wpc' = "idle"
    /\ task' = 0
    /\ background_tasks' = [background_tasks EXCEPT ![task].state = "done"]
    /\ pc' = "idle"
    /\ outcome' = NotReturned
    /\ raised' = NoneText
    /\ terminal' = "running"
    /\ returns' = 0
    /\ completions' = 0

\* end_of_day_workflow.py:76-98 and 277-305: the session has returned or
\* raised; the workflow reports, sends the report and returns its text
analysis_returns ==
    /\ wpc = "session"
    /\ pc = "done"
    /\ IF raised # NoneText
       THEN result' = Raises(raised)
       ELSE \E email_result \in Emails :
                result' = Returns(run_end_of_day_analysis(
                            AnalysisReport(outcome, uploaded_files), email_result))
    /\ wpc' = "end"
    /\ SessionFrameDropped
    /\ UNCHANGED <<now, analysis_status, background_tasks, task, disk,
                   uploaded_files, sandbox_files, arrivals>>

\* analysis_server.py:157-165 and 171-177: the workflow has returned or
\* raised
workflow_returns ==
    /\ wpc = "end"
    /\ IF result.raises
       THEN /\ analysis_status' =
                Updated(Put(Put(Entry, "status", "failed"),
                            "error", result.exception))
            /\ WorkflowFrameDropped
       ELSE /\ analysis_status' =
                Updated(Put(Put(Put(Entry, "status", "completed"),
                                "stage", "finished"),
                            "result", result.value))
            /\ wpc' = "log"
            /\ UNCHANGED <<task, background_tasks, result, uploaded_files,
                           sandbox_files, pc, outcome, raised, terminal,
                           returns, completions>>
    /\ UNCHANGED <<iteration_count, all_charts, final_analysis, messages,
                   assistant_message, tool_calls, i, tool_used, tool_results,
                   steady, sandbox_calls, search_calls, produced, requested,
                   adapter, now, disk, arrivals>>
    /\ UNCHANGED sent

\* analysis_server.py:167-177: the result is appended to the log file; the
\* open or the write may raise, inside the try
write_final_result ==
    /\ wpc = "log"
    /\ \E written \in BOOLEAN :
        IF written
        THEN UNCHANGED analysis_status
        ELSE analysis_status' =
                Updated(Put(Put(Entry, "status", "failed"),
                            "error", <<"OSError">>))
    /\ WorkflowFrameDropped
    /\ UNCHANGED <<iteration_count, all_charts, final_analysis, messages,
                   assistant_message, tool_calls, i, tool_used, tool_results,
                   steady, sandbox_calls, search_calls, produced, requested,
                   adapter, now, disk, arrivals>>
    /\ UNCHANGED sent

\* The server with its requests, the session taken by its result
ServerInit ==
    /\ SessionStart("idle")
    /\ steady = "run_python_code"
    /\ \E files \in Disks : ServerStart(files, MaxRequests)

ServerNext ==
    \/ Tick
    \/ \E focus \in Focuses : start_analysis(focus)
    \/ \E analysis_id \in AskedIds : get_analysis_status(analysis_id)
    \/ run_analysis_background
    \/ generate_analysis_report
    \/ generate_analysis
    \/ analysis_returns
    \/ workflow_returns
    \/ write_final_result

ServerSpec == ServerInit /\ [][ServerNext]_vars

\* One request from /analyze to its final status, with every step of its
\* session
WorkflowInit ==
    /\ SessionStart("idle")
    /\ \E files \in WorkflowDisks : ServerStart(files, 1)

WorkflowNext ==
    \/ \E focus \in Focuses : start_analysis(focus)
    \/ run_analysis_background
    \/ generate_analysis_report
    \/ Next
    \/ analysis_returns
    \/ workflow_returns
    \/ write_final_result

WorkflowSpec == WorkflowInit /\ [][WorkflowNext]_vars

----------------------------------------------------------------------------
\* Properties of the session

Returned == pc = "done" /\ returns > 0

\* the artifact list of the outcome, if it has one
OutcomeCharts == IF outcome.type = "dict" THEN outcome.charts ELSE <<>>

Payloads(charts) == [n \in 1..Len(charts) |-> charts[n].base64]

\* C1: when the session returns, the artifacts of its outcome are exactly the
\* images produced by the executions that succeeded, each once and in the
\* order produced, so their number is the sum of the images of those
\* executions.
C1_ArtifactsAreTheImagesProduced ==
    Returned =>
        /\ Len(OutcomeCharts) = Len(produced)
        /\ Payloads(OutcomeCharts) = produced

C1_Witness ==
    /\ Returned
    /\ outcome.type = "dict"
    /\ Len(outcome.charts) >= 2
    /\ sandbox_calls > Len(outcome.charts)

\* C2: the iteration counter never exceeds max_iterations and counts the
\* completion requests: each request follows exactly one increment, so a
\* session issues at most max_iterations requests.
C2_IterationCap ==
    /\ iteration_count \in 0..max_iterations
    /\ completions = iteration_count
    /\ completions <= max_iterations

C2_Witness ==
    /\ pc = "dispatch"
    /\ iteration_count = max_iterations
    /\ completions = max_iterations

\* every completion request returned a completion, each with at least one
\* action request and none with finalize_analysis
EveryCompletionActs ==
    /\ Len(requested) = completions
    /\ \A n \in 1..Len(requested) :
        /\ requested[n] # <<>>
        /\ \A m \in 1..Len(requested[n]) : requested[n][m] # "finalize_analysis"

\* C3: a session whose completions all request an action and never finalize
\* ends exhausted after exactly max_iterations completion requests.
C3_ActingSessionRunsToTheCap ==
    pc = "done" /\ EveryCompletionActs =>
        /\ terminal = "exhausted"
        /\ iteration_count = max_iterations
        /\ completions = max_iterations

\* C4: every session reaches a terminal state: finalized, idle-stop,
\* exhausted or an exception out of the session.
C4_SessionTerminates ==
    <>(pc = "done"
       /\ terminal \in {"finalized", "idle-stop", "exhausted", "exception"})

C4_Witness ==
    /\ pc = "done"
    /\ terminal = "exhausted"
    /\ iteration_count = max_iterations

ToolUseIds(message) ==
    LET blocks == SelectSeq(message.content, LAMBDA b : b.type = "tool_use")
    IN [n \in 1..Len(blocks) |-> blocks[n].id]

ToolResultIds(message) ==
    LET blocks == SelectSeq(message.content, LAMBDA b : b.type = "tool_result")
    IN [n \in 1..Len(blocks) |-> blocks[n].tool_use_id]

\* C5: in the transcript every assistant message with action requests is
\* followed by a user message that answers each request once, by its id, in
\* the order of the requests; so no completion is requested while a request
\* has no result.
C5_EveryRequestAnswered ==
    \A n \in 1..Len(messages) :
        messages[n].role = "assistant" /\ ToolUseIds(messages[n]) # <<>> =>
            /\ n < Len(messages)
            /\ messages[n + 1].role = "user"
            /\ ToolResultIds(messages[n + 1]) = ToolUseIds(messages[n])

\* C6: once finalize_analysis has been processed there is no further
\* completion request, no further adapter call and no further increment of
\* the counter; the session finalized in its k-th completion has consumed k
\* iterations.
C6_FinalizeStopsTheSession ==
    /\ [][terminal = "finalized" =>
            UNCHANGED <<completions, sandbox_calls, search_calls,
                        iteration_count>>]_vars
    /\ [](terminal = "finalized" =>
            /\ pc = "done"
            /\ iteration_count = Len(requested)
            /\ \E m \in 1..Len(requested[Len(requested)]) :
                requested[Len(requested)][m] = "finalize_analysis")

C6_Witness ==
    /\ pc = "done"
    /\ terminal = "finalized"
    /\ i <= Len(tool_calls)
    /\ sandbox_calls > 0
    /\ iteration_count = RichIteration

\* C7: finalize_analysis with executive_summary X and no
\* focus_analysis_findings returns the accumulator as it was before the
\* action, unmodified, with the findings X and "".
C7_FinalizeRoundTrip ==
    [][(/\ pc = "dispatch"
        /\ i <= Len(tool_calls)
        /\ tool_calls[i].name = "finalize_analysis"
        /\ DOMAIN tool_calls[i].input = {"executive_summary"})
       => outcome' = [type |-> "dict",
                      charts |-> all_charts,
                      analysis |->
                        [executive_summary |-> tool_calls[i].input.executive_summary,
                         focus_analysis_findings |-> <<>>]]]_vars

C7_Witness ==
    /\ Returned
    /\ terminal = "finalized"
    /\ outcome.analysis = [executive_summary |-> <<"X">>,
                           focus_analysis_findings |-> <<>>]
    /\ Len(outcome.charts) >= 2
    /\ outcome.charts = all_charts

\* C8: if the first completion has no action request, the session ends
\* after one iteration, with one completion request, no adapter call and no
\* artifact, and returns None.
C8_IdleFirstCompletion ==
    Len(requested) >= 1 /\ requested[1] = <<>> =>
        /\ iteration_count = 1
        /\ completions = 1
        /\ sandbox_calls = 0
        /\ search_calls = 0
        /\ all_charts = <<>>
        /\ (pc = "done" => outcome = None /\ terminal = "idle-stop")

C8_Witness ==
    /\ pc = "done"
    /\ requested = << <<>> >>
    /\ outcome = None

\* C9: a session that ends by idle-stop or by exhaustion with a non-empty
\* accumulator returns every accumulated artifact in order, the generic
\* summary and empty focus findings.
C9_FallbackOutcome ==
    pc = "done" /\ terminal \in {"idle-stop", "exhausted"} /\ all_charts # <<>> =>
        /\ outcome = [type |-> "dict",
                      charts |-> all_charts,
                      analysis |-> [executive_summary |-> FallbackSummary,
                                    focus_analysis_findings |-> <<>>]]
        /\ Payloads(outcome.charts) = produced

C9_Witness ==
    /\ pc = "done"
    /\ terminal = "idle-stop"
    /\ outcome.type = "dict"
    /\ Len(outcome.charts) >= 2

\* C10: a session that does not raise returns exactly one outcome, and the
\* outcome is None exactly when the session ended without finalize and with
\* an empty accumulator.
C10_SentinelIffNothingUsable ==
    pc = "done" /\ raised = NoneText =>
        /\ returns = 1
        /\ outcome # NotReturned
        /\ (outcome = None) <=> (terminal # "finalized" /\ all_charts = <<>>)

C10_Witness ==
    /\ pc = "done"
    /\ outcome = None
    /\ terminal = "exhausted"
    /\ sandbox_calls > 0

----------------------------------------------------------------------------
\* Properties of the dispatch of one tool call

\* the tool call at position i of the batch is about to be dispatched
Dispatching == pc = "dispatch" /\ i <= Len(tool_calls)

\* the argument key of that tool call is absent, None or ""
Missing(key) == Get(tool_calls[i].input, key, NoneText) \in {NoneText, <<>>}

\* the step appends exactly one tool result, for the tool call dispatched
OneResultAdded ==
    /\ Len(tool_results') = Len(tool_results) + 1
    /\ SubSeq(tool_results', 1, Len(tool_results)) = tool_results
    /\ tool_results'[Len(tool_results')].tool_call_id = tool_calls[i].id
    /\ tool_results'[Len(tool_results')].type = "tool_result"

\* the step goes on to the next tool call of the batch (and, after the
\* last one, to the end of the pass)
Continues ==
    /\ pc' = "dispatch"
    /\ i' = i + 1
    /\ raised' = raised
    /\ terminal' = terminal

\* a tool result carries no success flag: a failure is told by its text
FailureMarks ==
    {"Error: ", "Execution error: ", "Search error: ",
     "Error: Query parameter is required for health insights search"}

IsFailure(content) == \E n \in 1..Len(content) : content[n] \in FailureMarks

Carries(content, text) ==
    \E n \in 1..Len(content) : SubSeq(content, n, n + Len(text) - 1) = text

IsPrefix(s, t) == Len(s) <= Len(t) /\ SubSeq(t, 1, Len(s)) = s

\* C11: a run_python_code request whose code is absent or empty gets a
\* failure result for its id, without a call of sandbox.run_code and with
\* the accumulator unchanged, and the session continues.
C11_EmptyCodeAnswered ==
    [][(/\ Dispatching
        /\ tool_calls[i].name = "run_python_code"
        /\ Missing("code"))
       => /\ OneResultAdded
          /\ IsFailure(tool_results'[Len(tool_results')].content)
          /\ sandbox_calls' = sandbox_calls
          /\ all_charts' = all_charts
          /\ Continues]_vars

\* C12: a search_health_insights request whose query is absent or empty
\* gets exactly one failure result for its id, without a call of the
\* search adapter, and the session continues.
C12_MissingQueryAnswered ==
    [][(/\ Dispatching
        /\ tool_calls[i].name = "search_health_insights"
        /\ Missing("query"))
       => /\ OneResultAdded
          /\ IsFailure(tool_results'[Len(tool_results')].content)
          /\ search_calls' = search_calls
          /\ adapter' = adapter
          /\ Continues]_vars

C12_Witness ==
    /\ pc = "dispatch"
    /\ i = 2
    /\ tool_calls[1].name = "search_health_insights"
    /\ "query" \notin DOMAIN tool_calls[1].input
    /\ tool_results = <<ToolResult(tool_calls[1].id,
            <<"Error: Query parameter is required for health insights search">>)>>
    /\ search_calls = 0

\* C13: a tool call whose name is none of the three tools gets a failure
\* result for its id: the session does not stop on it, and in the
\* transcript the message after the one that holds it answers it.
C13_UnknownNameAnswered ==
    /\ [][(Dispatching /\ tool_calls[i].name \notin ToolNames)
            => /\ OneResultAdded
               /\ IsFailure(tool_results'[Len(tool_results')].content)
               /\ Continues]_vars
    /\ [](\A n \in 1..Len(messages) : \A m \in 1..Len(messages[n].content) :
            LET block == messages[n].content[m] IN
            block.type = "tool_use" /\ block.name \notin ToolNames =>
                /\ n < Len(messages)
                /\ \E k \in 1..Len(messages[n + 1].content) :
                    LET answer == messages[n + 1].content[k] IN
                    /\ answer.type = "tool_result"
                    /\ answer.tool_use_id = block.id)

\* the text that tells what went wrong in the adapter call recorded
AdapterDiagnostic(call) ==
    IF call.raises THEN call.exception ELSE call.error.value

\* C14: when the sandbox reports an execution error, when sandbox.run_code
\* raises and when the search client raises, the tool call gets one
\* failure result that carries the text of the error, the accumulator
\* keeps everything it had, and the session goes on with the batch.
C14_AdapterErrorIsAnswered ==
    [][(\/ /\ sandbox_calls' # sandbox_calls
           /\ (adapter'.raises \/ adapter'.error # None)
        \/ /\ search_calls' # search_calls
           /\ adapter'.raises)
       => /\ OneResultAdded
          /\ IsFailure(tool_results'[Len(tool_results')].content)
          /\ Carries(tool_results'[Len(tool_results')].content,
                     AdapterDiagnostic(adapter'))
          /\ all_charts' = all_charts
          /\ Continues]_vars

C14_Witness ==
    /\ pc = "dispatch"
    /\ adapter = [raises |-> TRUE, exception |-> <<"sandbox timeout">>]
    /\ Len(all_charts) >= 2
    /\ tool_results # <<>>
    /\ tool_results[Len(tool_results)].content
            = <<"Execution error: ", "sandbox timeout">>
    /\ i <= Len(tool_calls)

\* C15: no exception leaves the dispatch of a tool call: whatever the
\* adapter called does, also when it returns no text, the step appends
\* exactly one result and the session goes on with the batch.
C15_NoExceptionLeavesDispatch ==
    [][Dispatching =>
        /\ raised' = raised
        /\ terminal' # "exception"
        /\ (sandbox_calls' # sandbox_calls \/ search_calls' # search_calls
                => OneResultAdded /\ Continues)]_vars

\* C17: the accumulator only grows at its end: in every step what it held
\* is a prefix of what it holds afterwards.
C17_AccumulatorAppendOnly ==
    [][IsPrefix(all_charts, all_charts')]_vars

C17_Witness ==
    /\ pc = "dispatch"
    /\ Len(all_charts) >= 3
    /\ adapter = [raises |-> FALSE, error |-> ExecutionError,
                  results |-> Results(<<"png">>, sandbox_calls),
                  stdout |-> <<<<"rows: 3">>>>]

----------------------------------------------------------------------------
\* Properties of the workflow and of the server

\* C16: a completion request that fails ends the session with the exception
\* of the request and without a return value (so not None); the workflow
\* passes the exception on, run_analysis_background records the status
\* "failed" with the text of the exception, and the entry stays so.
C16_CompletionFailureFailsTheAnalysis ==
    /\ [][(completions' = completions + 1 /\ pc' = "done")
            => /\ raised' = <<"APIError">>
               /\ terminal' = "exception"
               /\ outcome' = NotReturned
               /\ returns' = 0]_vars
    /\ [][(wpc = "session" /\ pc = "done" /\ raised = <<"APIError">>)
            => result' = [raises |-> TRUE, exception |-> <<"APIError">>]]_vars
    /\ [][(wpc = "end" /\ result = [raises |-> TRUE, exception |-> <<"APIError">>])
            => LET entry == analysis_status'[background_tasks[task].analysis_id]
               IN /\ entry.status = "failed"
                  /\ entry.error = <<"APIError">>]_vars
    /\ [](\A id \in DOMAIN analysis_status :
            \/ raised = <<"APIError">>
            \/ result = [raises |-> TRUE, exception |-> <<"APIError">>]
            => analysis_status[id].status # "completed")
    /\ [][\A id \in DOMAIN analysis_status :
            /\ analysis_status[id].status = "failed"
            /\ analysis_status[id].error = <<"APIError">>
            => analysis_status'[id] = analysis_status[id]]_vars

C16_Witness ==
    /\ wpc = "idle"
    /\ \E id \in DOMAIN analysis_status :
        /\ analysis_status[id].status = "failed"
        /\ analysis_status[id].error = <<"APIError">>
        /\ analysis_status[id].focus = <<"sleep quality">>

\* s is t with some of its elements left out
IsSubsequence(s, t) ==
    \E at \in [1..Len(s) -> 1..Len(t)] :
        /\ \A n \in 1..Len(s) : s[n] = t[at[n]]
        /\ \A n \in 1..Len(s) : \A m \in 1..Len(s) : n < m => at[n] < at[m]

Names(pairs) == [n \in 1..Len(pairs) |-> pairs[n][1]]

Forward ==
    {<<"started", "running">>, <<"running", "completed">>,
     <<"running", "failed">>}

\* C19: an entry of analysis_status is created with the status "started",
\* is never removed, and its status only moves started -> running ->
\* completed or failed; a completed or failed entry keeps its status.
C19_StatusMovesForward ==
    [][/\ DOMAIN analysis_status \subseteq DOMAIN analysis_status'
       /\ \A id \in DOMAIN analysis_status' \ DOMAIN analysis_status :
            analysis_status'[id].status = "started"
       /\ \A id \in DOMAIN analysis_status :
            \/ analysis_status'[id].status = analysis_status[id].status
            \/ <<analysis_status[id].status, analysis_status'[id].status>>
                    \in Forward]_vars

\* C20: the outcome of a session that finalizes is not the outcome of a
\* session that stops idle.  The pair taken: the session that finalizes
\* first thing in its k-th completion, and the session with the same k-1
\* completions before whose k-th completion has no tool call, which
\* returns FallbackOutcome of the same accumulator.
C20_FinalizedDiffersFromIdleStop ==
    [][(/\ Dispatching
        /\ i = 1
        /\ tool_calls[i].name = "finalize_analysis")
       => outcome' # FallbackOutcome(all_charts)]_vars

----------------------------------------------------------------------------
\* Properties of the order of the calls and of the transcript

\* the step makes a completion request (line 155)
Asks == completions' = completions + 1

\* the adapter calls the step makes (lines 224, 269)
Calls == (sandbox_calls' - sandbox_calls) + (search_calls' - search_calls)

\* the names of the tool calls of the batch
BatchNames == [n \in 1..Len(tool_calls) |-> tool_calls[n].name]

\* C21: the external calls of a session are made one at a time: a
\* completion request is made only when every tool call of the completion
\* before it has been passed, an adapter call is made for the tool call at
\* the head of what is left of the batch of the last completion received,
\* and the tool calls of a batch are passed one by one in the order issued.
C21_CallsAreTotallyOrdered ==
    [][/\ Calls \in {0, 1}
       /\ completions' \in {completions, completions + 1}
       /\ ~(Asks /\ Calls = 1)
       /\ Asks => /\ pc = "loop"
                   /\ i = Len(tool_calls) + 1
                   /\ Len(requested) = completions
       /\ Calls = 1 =>
            /\ Dispatching
            /\ Len(requested) = completions
            /\ requested[completions] = BatchNames
            /\ tool_calls[i].name = (IF sandbox_calls' # sandbox_calls
                                      THEN "run_python_code"
                                      ELSE "search_health_insights")
       /\ pc = "dispatch" /\ i <= Len(tool_calls) =>
            /\ i' = i + 1
            /\ tool_calls' = tool_calls
            /\ iteration_count' = iteration_count]_vars

C21_Witness ==
    /\ pc = "dispatch"
    /\ iteration_count = RichIteration + 1
    /\ requested[RichIteration] = <<"search_health_insights", "run_python_code">>
    /\ search_calls >= 1
    /\ sandbox_calls >= 1
    /\ completions = RichIteration + 1

\* line 86: the message the transcript starts with
Instruction ==
    [role |-> "user", content |-> <<[type |-> "text", text |-> analysis_prompt]>>]

\* C22: the transcript starts with the user message of the instruction and
\* only grows at its end; every completion request is given the transcript
\* as it is then, so what one request is given is a prefix of what the next
\* one is given.
C22_TranscriptAppendOnly ==
    /\ messages = <<Instruction>>
    /\ [][/\ IsPrefix(messages, messages')
          /\ IF Asks
             THEN sent' = messages /\ IsPrefix(sent, sent')
             ELSE sent' = sent]_vars

C22_Witness ==
    /\ pc = "loop"
    /\ completions >= 2
    /\ Len(sent) >= 3
    /\ Len(messages) = Len(sent) + 2
    /\ IsPrefix(sent, messages)

\* the sandbox ran the code and reports an error of the code
ExecutionFailed(execution) == ~execution.raises /\ execution.error # None

\* C23: when the sandbox reports an execution error, the result of the tool
\* call is the text "Error: <name> - <value>" and nothing else, so without
\* the output captured, and the accumulator gets no chart, whatever the
\* result list and the output of the execution hold.
C23_ExecutionErrorGivesNoPartialCredit ==
    [][(sandbox_calls' # sandbox_calls /\ ExecutionFailed(adapter'))
       => /\ OneResultAdded
          /\ tool_results'[Len(tool_results')].content
                = <<"Error: ">> \o adapter'.error.name \o <<" - ">>
                  \o adapter'.error.value
          /\ \A n \in 1..Len(adapter'.stdout) :
                ~Carries(tool_results'[Len(tool_results')].content,
                         adapter'.stdout[n])
          /\ all_charts' = all_charts
          /\ produced' = produced]_vars

C23_Witness ==
    /\ pc = "dispatch"
    /\ "error" \in DOMAIN adapter
    /\ ExecutionFailed(adapter)
    /\ \E n \in 1..Len(adapter.results) : adapter.results[n].png # NoneText
    /\ adapter.stdout # <<>>
    /\ tool_results # <<>>
    /\ tool_results[Len(tool_results)].content
            = <<"Error: ", "NameError", " - ", "name 'df' is not defined">>
    /\ Len(all_charts) = sandbox_calls - 1

----------------------------------------------------------------------------
\* Properties of finalize_analysis in a batch

\* the tool call at position i of the batch is finalize_analysis
Finalizing == Dispatching /\ tool_calls[i].name = "finalize_analysis"

\* a tool call that the dispatcher answers with a result (lines 209-210,
\* 251-257, 279-293)
Answered(tool_call) ==
    \/ tool_call.name = "run_python_code"
        /\ Truthy(Get(tool_call.input, "code", NoneText))
    \/ tool_call.name = "search_health_insights"

\* the ids of the tool calls before position n that are answered
AnsweredBefore(n) ==
    LET before == SelectSeq(SubSeq(tool_calls, 1, n - 1), Answered)
    IN [k \in 1..Len(before) |-> before[k].id]

\* C24: finalize_analysis in a batch short-circuits: the tool calls issued
\* before it have been dispatched in order and the charts they produced are
\* in the outcome returned, the step returns at once, and after it no tool
\* call is dispatched, no adapter is called, no result is added and no
\* iteration is started.
C24_FinalizeShortCircuitsTheBatch ==
    /\ [][Finalizing =>
            /\ [k \in 1..Len(tool_results) |-> tool_results[k].tool_call_id]
                    = AnsweredBefore(i)
            /\ pc' = "done"
            /\ terminal' = "finalized"
            /\ outcome'.type = "dict"
            /\ outcome'.charts = all_charts
            /\ Payloads(outcome'.charts) = produced
            /\ Calls = 0
            /\ tool_results' = tool_results]_vars
    /\ [][terminal = "finalized" =>
            UNCHANGED <<pc, i, tool_calls, tool_results, all_charts, adapter,
                        sandbox_calls, search_calls, completions,
                        iteration_count, outcome>>]_vars

C24_Witness ==
    /\ pc = "done"
    /\ terminal = "finalized"
    /\ iteration_count = RichIteration
    /\ requested[RichIteration] = <<"run_python_code", "finalize_analysis">>
    /\ i = 3
    /\ Len(tool_results) = 1
    /\ produced # <<>>
    /\ produced[Len(produced)] = Png(sandbox_calls, 1)
    /\ outcome.charts[Len(outcome.charts)].base64 = Png(sandbox_calls, 1)

\* finalize_analysis first in a batch of two, the second never dispatched
C24_Skipped ==
    /\ pc = "done"
    /\ terminal = "finalized"
    /\ iteration_count = RichIteration
    /\ requested[RichIteration] = <<"finalize_analysis", "run_python_code">>
    /\ i = 2
    /\ tool_results = <<>>

\* C25: the step of finalize_analysis adds no tool result, for its own id
\* or any other, and leaves the transcript as the completion request of
\* that iteration was given it: the assistant message of the completion and
\* the results of the tool calls before finalize_analysis in the batch are
\* not in the transcript when the outcome is returned.
C25_FinalizeLeavesTheTranscript ==
    /\ [][Finalizing =>
            /\ tool_results' = tool_results
            /\ \A k \in 1..Len(tool_results') :
                    tool_results'[k].tool_call_id # tool_calls[i].id
            /\ messages' = messages
            /\ messages' = sent
            /\ outcome' # NotReturned]_vars
    /\ [](terminal = "finalized" =>
            /\ messages = sent
            /\ \A n \in 1..Len(messages) :
                    messages[n] # assistant_message
                    /\ (tool_results # <<>> =>
                            messages[n] # UserMessage(tool_results)))

C25_Witness ==
    /\ pc = "done"
    /\ terminal = "finalized"
    /\ outcome # NotReturned
    /\ iteration_count = RichIteration
    /\ requested[RichIteration] = <<"search_health_insights", "finalize_analysis">>
    /\ Len(tool_results) = 1
    /\ Len(assistant_message.content) = 2
    /\ messages = sent
    /\ Len(messages) = 2 * RichIteration - 1

----------------------------------------------------------------------------
\* Properties of the artifacts

\* C26: in the outcome returned the artifact at position N is titled
\* "Chart N", so no two artifacts of a session have the same title.
C26_TitlesArePositions ==
    Returned =>
        /\ \A n \in 1..Len(OutcomeCharts) :
                OutcomeCharts[n].title = <<"Chart ", ToString(n)>>
        /\ \A n \in 1..Len(OutcomeCharts) : \A m \in 1..Len(OutcomeCharts) :
                n # m => OutcomeCharts[n].title # OutcomeCharts[m].title

----------------------------------------------------------------------------
\* Properties of the roles of the transcript

\* user, assistant, user, ..., user
Alternates(transcript) ==
    /\ transcript # <<>>
    /\ transcript[1].role = "user"
    /\ transcript[Len(transcript)].role = "user"
    /\ \A n \in 1..(Len(transcript) - 1) :
            transcript[n].role # transcript[n + 1].role

\* C27: every transcript given to a completion request alternates between
\* user and assistant, from a user message to a user message.
C27_RolesAlternate == completions > 0 => Alternates(sent)

----------------------------------------------------------------------------
\* Properties of the status of an analysis

\* the text run_end_of_day_analysis returns when the report is a failure
\* (end_of_day_workflow.py:277-280)
TellsFailure(text) == text # <<>> /\ Head(text) = "Analysis failed: "

\* C28: no entry is "completed" with the result of an analysis that failed:
\* when no dataset was found, loaded or uploaded, or the session returned
\* None, the entry is not "completed".
C28_CompletedOnlyWithAnOutcome ==
    \A id \in DOMAIN analysis_status :
        analysis_status[id].status = "completed" =>
            ~TellsFailure(analysis_status[id].result)

\* the step accepts a request (analysis_server.py:87-97)
Accepts == Len(background_tasks') = Len(background_tasks) + 1

\* the ids of the background runs that the step starts or that are running
RunningIds ==
    (IF task # 0 THEN {background_tasks[task].analysis_id} ELSE {})
    \cup (IF task' # 0 THEN {background_tasks'[task'].analysis_id} ELSE {})

\* C29: the requests accepted have ids of their own and entries of their
\* own: accepting a request adds an entry under an id not used before and
\* leaves every other entry as it is, and a background run writes the entry
\* of its request only.
C29_EveryRequestHasItsEntry ==
    /\ [](\A a \in 1..Len(background_tasks) : \A b \in 1..Len(background_tasks) :
            a # b => background_tasks[a].analysis_id # background_tasks[b].analysis_id)
    /\ [](Cardinality(DOMAIN analysis_status) = Len(background_tasks))
    /\ [][/\ Accepts =>
                /\ background_tasks'[Len(background_tasks')].analysis_id
                        \notin DOMAIN analysis_status
                /\ \A id \in DOMAIN analysis_status :
                        analysis_status'[id] = analysis_status[id]
          /\ ~Accepts =>
                \A id \in DOMAIN analysis_status :
                    analysis_status'[id] # analysis_status[id] => id \in RunningIds]_vars

----------------------------------------------------------------------------
\* Properties of the staging of the datasets

\* the datasets that can be loaded from data/export
Loadable == load_csv_files(disk, discover_csv_files(disk))

\* the session has made no external call
NoSessionCall == completions = 0 /\ sandbox_calls = 0 /\ search_calls = 0

\* C30: when no dataset is staged (no CSV file, every file empty or
\* unreadable, or every upload failed) generate_analysis_report returns its
\* failure and the session is not called: no completion request and no
\* adapter call is made for that request.
C30_NoDatasetNoSession ==
    /\ [][(wpc = "report" /\ uploaded_files' = <<>>) =>
            /\ wpc' = "end"
            /\ ~result'.raises
            /\ TellsFailure(result'.value)
            /\ pc' = "idle"
            /\ sent' = <<>>
            /\ completions' = 0 /\ sandbox_calls' = 0 /\ search_calls' = 0]_vars
    /\ [](uploaded_files = <<>> => pc = "idle" /\ NoSessionCall)
    /\ [](Loadable = <<>> => pc = "idle" /\ NoSessionCall /\ wpc # "session")

C30_Witness ==
    /\ wpc = "log"
    /\ disk = SessionDisk
    /\ uploaded_files = <<>>
    /\ sandbox_files = <<>>
    /\ NoSessionCall
    /\ \E id \in DOMAIN analysis_status :
            analysis_status[id].result
                = <<"Analysis failed: ", "Failed to upload files to analysis sandbox">>

====
